---- MODULE Spec2Model ----
(***************************************************************************)
(* Model of the POST /analyze handler of the weirdness checker.  The       *)
(* repository holds three builds of the server: src/server.js (fetch),     *)
(* src/unnamed/part_000 lines 1-147 (HfInference client with a token       *)
(* check) and src/unnamed/part_000 lines 149-283 (HfInference client, a    *)
(* res.renderResult helper installed by a middleware).                     *)
(*                                                                         *)
(* JavaScript numbers are modelled as records [kind, val]: kind is         *)
(* "finite", "NaN" or "Infinity"; a finite val is a fixed-point number     *)
(* with SCALE units per 1.0.  The format is narrower than an IEEE double:  *)
(* Math.exp overflows to Infinity above ExpOverflowAt instead of 709.78.   *)
(***************************************************************************)
EXTENDS Integers, Sequences, FiniteSets, TLC

\* ------------------------------------------------------------------------
\* Bounds of the model
\* ------------------------------------------------------------------------
MaxTokens == 2
NumRequests == 2

\* ------------------------------------------------------------------------
\* Fixed-point representation of JavaScript numbers
\* ------------------------------------------------------------------------
SCALE == 10000
LN2x10 == 69315
ExpOverflowAt == 11 * SCALE

Fin(v) == [kind |-> "finite", val |-> v]
NaN == [kind |-> "NaN", val |-> 0]
Infinity == [kind |-> "Infinity", val |-> 0]
NoNumber == [kind |-> "none", val |-> 0]

IsFinite(x) == x.kind = "finite"

\* a / b rounded to the nearest integer, for a >= 0 and b > 0
RoundDiv(a, b) == (2 * a + b) \div (2 * b)

\* a / b rounded to the nearest integer, for any a and b > 0
SRoundDiv(a, b) == IF a >= 0 THEN RoundDiv(a, b) ELSE 0 - RoundDiv(0 - a, b)

RECURSIVE Pow2(_)
Pow2(k) == IF k <= 0 THEN 1 ELSE 2 * Pow2(k - 1)

\* largest k with SCALE * 2^k <= v, for v >= SCALE
RECURSIVE Log2Floor(_)
Log2Floor(v) == IF v < 2 * SCALE THEN 0 ELSE 1 + Log2Floor(v \div 2)

\* smallest k with v * 2^k >= SCALE, for 0 < v
RECURSIVE Log2Up(_)
Log2Up(v) == IF v >= SCALE THEN 0 ELSE 1 + Log2Up(2 * v)

\* exp(r) for a fixed-point r in [0, ln 2): Taylor series 1 + r + r^2/2! + ...
RECURSIVE ExpTerms(_, _, _)
ExpTerms(r, term, n) ==
    IF term = 0 \/ n > 12 THEN 0
    ELSE term + ExpTerms(r, RoundDiv(term * r, n * SCALE), n + 1)

\* exp(v) for a fixed-point v in [0, ExpOverflowAt]
FixedExpPos(v) ==
    LET k == (10 * v) \div LN2x10
        r == v - RoundDiv(k * LN2x10, 10)
        rr == IF r < 0 THEN 0 ELSE r
    IN  Pow2(k) * ExpTerms(rr, SCALE, 1)

\* exp(v) for any fixed-point v <= ExpOverflowAt
FixedExp(v) ==
    IF v >= 0 THEN FixedExpPos(v)
    ELSE IF 0 - v > ExpOverflowAt THEN 0
    ELSE RoundDiv(SCALE * SCALE, FixedExpPos(0 - v))

\* ln(m) for a fixed-point m in [1, 2): 2 * atanh((m-1)/(m+1))
FixedLnMantissa(m) ==
    LET z  == RoundDiv((m - SCALE) * SCALE, m + SCALE)
        z2 == RoundDiv(z * z, SCALE)
        z3 == RoundDiv(z * z2, SCALE)
        z5 == RoundDiv(z3 * z2, SCALE)
        z7 == RoundDiv(z5 * z2, SCALE)
        z9 == RoundDiv(z7 * z2, SCALE)
    IN  RoundDiv(2 * (315 * z + 105 * z3 + 63 * z5 + 45 * z7 + 35 * z9), 315)

\* ln(v) for a fixed-point v > 0
FixedLn(v) ==
    IF v >= SCALE
    THEN LET k == Log2Floor(v)
         IN  RoundDiv(k * LN2x10, 10) + FixedLnMantissa(RoundDiv(v, Pow2(k)))
    ELSE LET k == Log2Up(v)
         IN  FixedLnMantissa(v * Pow2(k)) - RoundDiv(k * LN2x10, 10)

\* Math.exp(x)
MathExp(x) ==
    IF x.kind = "NaN" THEN NaN
    ELSE IF x.kind = "Infinity" THEN Infinity
    ELSE IF x.val > ExpOverflowAt THEN Infinity
    ELSE Fin(FixedExp(x.val))

\* x + 1
PlusOne(x) == IF IsFinite(x) THEN Fin(x.val + SCALE) ELSE x

\* Math.log(x), for x >= 0 or not finite
MathLog(x) ==
    IF ~IsFinite(x) THEN x
    ELSE IF x.val <= 0 THEN NaN
    ELSE Fin(FixedLn(x.val))

\* x ** 1.7, for x >= 0 or not finite
Pow17(x) ==
    IF ~IsFinite(x) THEN x
    ELSE IF x.val < 0 THEN NaN
    ELSE IF x.val = 0 THEN Fin(0)
    ELSE Fin(FixedExp(SRoundDiv(17 * FixedLn(x.val), 10)))

\* x * 11
Times11(x) == IF IsFinite(x) THEN Fin(11 * x.val) ELSE x

\* Math.round(x): nearest integer, halves rounded up
MathRound(x) ==
    IF ~IsFinite(x) THEN x
    ELSE Fin(((2 * x.val + SCALE) \div (2 * SCALE)) * SCALE)

\* Math.max(0, x)
MathMax0(x) ==
    IF x.kind = "NaN" THEN NaN
    ELSE IF x.kind = "Infinity" THEN Infinity
    ELSE IF x.val < 0 THEN Fin(0) ELSE x

\* faulty variant: the upper clamp left out
MathMin100NoClamp(x) == x

\* faulty variant: the score wrapped into 0..100 instead of clamped
MathMin100Wrap(x) ==
    IF x.kind = "NaN" THEN NaN
    ELSE IF x.kind = "Infinity" THEN Fin(100 * SCALE)
    ELSE Fin(x.val % (101 * SCALE))

\* Math.min(100, x)
MathMin100(x) ==
    IF x.kind = "NaN" THEN NaN
    ELSE IF x.kind = "Infinity" THEN Fin(100 * SCALE)
    ELSE IF x.val > 100 * SCALE THEN Fin(100 * SCALE) ELSE x

\* Math.min(100, Math.max(0, Math.round((Math.log(ppl + 1) ** 1.7) * 11)))
Weirdness(ppl) == MathMin100(MathMax0(MathRound(Times11(Pow17(MathLog(PlusOne(ppl)))))))

\* -(totalLogProb / tokenCount)
NegAvgLogProb(totalLogProb, tokenCount) ==
    IF tokenCount = 0
    THEN IF totalLogProb = 0 THEN NaN ELSE Infinity
    ELSE Fin(SRoundDiv(0 - totalLogProb, tokenCount))

\* ppl.toFixed(1): the value in tenths
ToFixed1(x) == IF IsFinite(x) THEN Fin(RoundDiv(x.val, SCALE \div 10)) ELSE x


\* ------------------------------------------------------------------------
\* Inputs: request bodies and provider outcomes
\* ------------------------------------------------------------------------
Builds == {"server", "partA", "partB"}
Reqs == 1..NumRequests

\* req.body.sentence: absent, or a string given as its sequence of characters
Bodies ==
    { [present |-> FALSE, chars |-> << >>],
      [present |-> TRUE,  chars |-> <<" ", " ">>],
      [present |-> TRUE,  chars |-> <<" ", "a", " ", " ", "b", " ">>],
      [present |-> TRUE,  chars |-> <<"<", "&">>] }

\* token.logprob values, in fixed point; every average of them stays below
\* ExpOverflowAt, where the model's Math.exp and a double's agree
LogProbs == {0 - 6 * SCALE}

Tokens ==
    { [hasLogprob |-> FALSE, logprob |-> 0] } \cup
    { [hasLogprob |-> TRUE, logprob |-> v] : v \in LogProbs }

RECURSIVE SeqsUpTo(_, _)
SeqsUpTo(S, n) ==
    IF n = 0 THEN { << >> }
    ELSE LET shorter == SeqsUpTo(S, n - 1)
         IN  shorter \cup { Append(q, x) : q \in shorter, x \in S }

Prefills == SeqsUpTo(Tokens, MaxTokens)

ErrorTexts == {"model loading", "rate limited"}

NoOutcome == [kind |-> "none", errorText |-> "", details |-> FALSE, prefill |-> << >>]

\* what the provider call can settle with: a transport rejection, a
\* non-success status with a body text, or a success whose JSON has no
\* details.prefill, an empty one or a list of tokens
Outcomes ==
    { [kind |-> "reject", errorText |-> "", details |-> FALSE, prefill |-> << >>] } \cup
    { [kind |-> "status", errorText |-> t, details |-> FALSE, prefill |-> << >>] : t \in ErrorTexts } \cup
    { [kind |-> "ok", errorText |-> "", details |-> FALSE, prefill |-> << >>] } \cup
    { [kind |-> "ok", errorText |-> "", details |-> TRUE, prefill |-> p] : p \in Prefills }

\* ------------------------------------------------------------------------
\* String helpers
\* ------------------------------------------------------------------------
IsSpace(c) == c \in {" ", "\t", "\n"}

RECURSIVE TrimStart(_)
TrimStart(s) == IF s # << >> /\ IsSpace(Head(s)) THEN TrimStart(Tail(s)) ELSE s

RECURSIVE TrimEnd(_)
TrimEnd(s) ==
    IF s # << >> /\ IsSpace(s[Len(s)]) THEN TrimEnd(SubSeq(s, 1, Len(s) - 1)) ELSE s

\* (req.body.sentence || '').trim()
TrimSentence(b) == IF b.present THEN TrimEnd(TrimStart(b.chars)) ELSE << >>

\* sentence.split(/\s+/).filter(Boolean).length: the number of positions
\* where a run of non-space characters starts
WordCount(s) ==
    Cardinality({ i \in 1..Len(s) : ~IsSpace(s[i]) /\ (i = 1 \/ IsSpace(s[i - 1])) })

EscapeChar(c) ==
    IF c = "&" THEN "&amp;"
    ELSE IF c = "<" THEN "&lt;"
    ELSE IF c = ">" THEN "&gt;"
    ELSE IF c = "\"" THEN "&quot;"
    ELSE IF c = "'" THEN "&#039;"
    ELSE c

escapeHtml(s) == [i \in 1..Len(s) |-> EscapeChar(s[i])]


\* ------------------------------------------------------------------------
\* The scoring pipeline inside the try block
\* ------------------------------------------------------------------------
\* token.logprob || 0
LogprobOrZero(token) ==
    IF token.hasLogprob /\ token.logprob # 0 THEN token.logprob ELSE 0

\* prefill.map(token => token.logprob || 0).reduce((a, b) => a + b, 0)
RECURSIVE TotalLogProb(_)
TotalLogProb(prefill) ==
    IF prefill = << >> THEN 0
    ELSE LogprobOrZero(Head(prefill)) + TotalLogProb(Tail(prefill))

\* faulty variant: only the tokens that carry a logprob are counted
TokenCountPresent(prefill) == Len(SelectSeq(prefill, LAMBDA t : t.hasLogprob))

\* data.details.prefill.length
TokenCount(prefill) == Len(prefill)

\* Math.exp(-avgLogProb)
Ppl(prefill) == MathExp(NegAvgLogProb(TotalLogProb(prefill), TokenCount(prefill)))

Null == "null"
Dash == [text |-> "-", value |-> NoNumber]
ErrorInfo == [text |-> "Error calculating weirdness", value |-> NoNumber]
PerplexityInfo(ppl) == [text |-> "Perplexity ~ ", value |-> ToFixed1(ppl)]

NoError == [message |-> "", detail |-> ""]
TokenError == [message |-> "HF_TOKEN is not set in environment variables", detail |-> ""]
TransportError == [message |-> "fetch failed", detail |-> ""]
StatusError(text) == [message |-> "Hugging Face API error", detail |-> text]
NoLogprobsError == [message |-> "No token logprobs returned from model", detail |-> ""]
PrefillTypeError == [message |-> "TypeError: cannot read properties of undefined", detail |-> "prefill"]

\* errorMessage assigned in the catch block; the third build has none
ErrorMessageOf(b) ==
    IF b = "server" THEN "Could not reach Hugging Face. Check logs or try again later."
    ELSE IF b = "partA" THEN "Could not reach Hugging Face - check HF_TOKEN or try later."
    ELSE Null

\* let weirdness = 0; let perplexityInfo = '-'; let errorMessage = null
InitialResult(wordCount) ==
    [wordCount |-> wordCount, weirdness |-> Fin(0), perplexityInfo |-> Dash,
     errorMessage |-> Null]

\* the prefill guard of the first two builds
PrefillGuard(b) == b \in {"server", "partA"}

\* the error thrown by the try block once the provider's JSON is at hand,
\* NoError when it runs to its end
ScoreError(b, o) ==
    IF PrefillGuard(b) /\ (~o.details \/ Len(o.prefill) = 0) THEN NoLogprobsError
    ELSE IF ~o.details THEN PrefillTypeError
    ELSE NoError

\* the locals after the try block ran to its end
Scored(res, o) ==
    [res EXCEPT !.weirdness = Weirdness(Ppl(o.prefill)),
                !.perplexityInfo = PerplexityInfo(Ppl(o.prefill))]

\* faulty variant: the caught error's text is shown to the caller
CaughtVerbatim(b, res, err) ==
    [res EXCEPT !.perplexityInfo = ErrorInfo,
                !.errorMessage = IF err.detail # "" THEN err.detail ELSE err.message]

\* the locals after catch (err): err goes to console.error only
Caught(b, res, err) ==
    [res EXCEPT !.perplexityInfo = ErrorInfo, !.errorMessage = ErrorMessageOf(b)]

\* the error the provider step ends with for outcome o, NoError on success
ProviderError(o) ==
    IF o.kind = "reject" THEN TransportError
    ELSE IF o.kind = "status" THEN StatusError(o.errorText)
    ELSE NoError

\* the error the whole try block ends with, given the provider's outcome
TryError(b, o) ==
    IF ProviderError(o) # NoError THEN ProviderError(o) ELSE ScoreError(b, o)

\* the locals after try/catch, given the provider's outcome
AfterTry(b, res, o) ==
    IF TryError(b, o) # NoError THEN Caught(b, res, TryError(b, o)) ELSE Scored(res, o)

\* ------------------------------------------------------------------------
\* Responses
\* ------------------------------------------------------------------------
NoResponse ==
    [kind |-> "none", sentence |-> << >>, hasResult |-> FALSE, wordCount |-> 0,
     weirdness |-> NoNumber, perplexityInfo |-> Dash, errorMessage |-> Null]
Redirect == [NoResponse EXCEPT !.kind = "redirect"]
Error500 == [NoResponse EXCEPT !.kind = "error500"]

\* the result page sent by res.send
ResultPage(s, res) ==
    [kind |-> "page", sentence |-> escapeHtml(s), hasResult |-> TRUE,
     wordCount |-> res.wordCount, weirdness |-> res.weirdness,
     perplexityInfo |-> res.perplexityInfo, errorMessage |-> res.errorMessage]

\* the page of renderResult(res, sentence, null)
FormPage(s) == [NoResponse EXCEPT !.kind = "page", !.sentence = escapeHtml(s)]

\* the order in which app.use / app.get / app.post registered the layers
Stack(b) ==
    IF b = "partB"
    THEN <<"static", "urlencoded", "GET /", "POST /analyze", "renderResult">>
    ELSE <<"static", "urlencoded", "GET /health", "GET /", "POST /analyze">>

\* res.renderResult exists in the handler only when the middleware that
\* installs it is registered before the route
RenderResultInstalled(b) ==
    \E i, j \in 1..Len(Stack(b)) :
        i < j /\ Stack(b)[i] = "renderResult" /\ Stack(b)[j] = "POST /analyze"

\* the handler sends through res.renderResult only in the third build
SendsDirectly(b) == b \in {"server", "partA"}


\* ------------------------------------------------------------------------
\* State
\* ------------------------------------------------------------------------
VARIABLES
    build,        \* which of the three server files runs
    HF_TOKEN,     \* whether process.env.HF_TOKEN is set
    asyncErrors,  \* what the framework does with a rejected async handler
    pc,           \* per request: the await the handler is suspended at
    body,         \* per request: req.body.sentence
    sentence,     \* per request: the trimmed sentence
    called,       \* per request: provider calls issued
    outcome,      \* per request: what the provider call settled with
    result,       \* per request: wordCount, weirdness, perplexityInfo, errorMessage
    response,     \* per request: what the caller receives
    sent,         \* per request: res.send / res.redirect calls of the handler
    escaped,      \* per request: an exception left the handler
    logged,       \* per request: the errors given to console.error
    overlapped,   \* history: two handlers were suspended at the same time
    probe         \* two perplexity values and their scores (SpecScore only)

handlerVars == <<build, HF_TOKEN, asyncErrors, pc, body, sentence, called, outcome,
                 result, response, sent, escaped, logged, overlapped>>

vars == <<build, HF_TOKEN, asyncErrors, pc, body, sentence, called, outcome,
          result, response, sent, escaped, logged, overlapped, probe>>

NoProbe == [p1 |-> Fin(0), p2 |-> Fin(0), w1 |-> NoNumber, w2 |-> NoNumber,
            scored |-> FALSE]

\* a rejected async handler is either forwarded to the framework's error
\* handler, which answers 500, or left unhandled, and the request is never
\* answered; only the third build has a path on which the handler rejects
AsyncErrorModes(b) == IF b = "partB" THEN {"forwarded", "unhandled"} ELSE {"unhandled"}

InitHandler ==
    /\ build \in Builds
    /\ HF_TOKEN \in BOOLEAN
    /\ asyncErrors \in AsyncErrorModes(build)
    /\ pc = [r \in Reqs |-> "idle"]
    /\ body = [r \in Reqs |-> [present |-> FALSE, chars |-> << >>]]
    /\ sentence = [r \in Reqs |-> << >>]
    /\ called = [r \in Reqs |-> 0]
    /\ outcome = [r \in Reqs |-> NoOutcome]
    /\ result = [r \in Reqs |-> InitialResult(0)]
    /\ response = [r \in Reqs |-> NoResponse]
    /\ sent = [r \in Reqs |-> 0]
    /\ escaped = [r \in Reqs |-> FALSE]
    /\ logged = [r \in Reqs |-> << >>]
    /\ overlapped = FALSE

Init == InitHandler /\ probe = NoProbe

Suspended(p) == p \notin {"idle", "done"}

\* faulty variant: the locals live in one module-level slot, the one of the
\* highest-numbered request that has started
LocalsShared(r) ==
    result[CHOOSE q \in Reqs :
              /\ pc[q] # "idle"
              /\ \A p \in Reqs : pc[p] # "idle" => p <= q]

\* the handler's own locals: declared with let inside the handler, one set
\* per invocation
Locals(r) == result[r]

\* the handler's own sentence
SentenceOf(r) == sentence[r]

\* the token check at the head of the try block; the third build has none
TokenCheck(b) == b \in {"server", "partA"}

\* whether the call through res goes out: res.send in the first two builds,
\* res.renderResult in the third, a TypeError when the helper is not installed
CanSend(b) == SendsDirectly(b) \/ RenderResultInstalled(b)

\* what the caller gets when the handler rejects
Rejected(mode) == IF mode = "forwarded" THEN Error500 ELSE NoResponse

\* the call through res
Respond(r, page) ==
    IF CanSend(build)
    THEN /\ response' = [response EXCEPT ![r] = page]
         /\ sent' = [sent EXCEPT ![r] = @ + 1]
         /\ UNCHANGED escaped
    ELSE /\ response' = [response EXCEPT ![r] = Rejected(asyncErrors)]
         /\ escaped' = [escaped EXCEPT ![r] = TRUE]
         /\ UNCHANGED sent

\* the end of the handler: console.error in the catch block when err was
\* thrown, then the result page
Finish(r, s, res, err) ==
    /\ logged' = [logged EXCEPT ![r] = IF err = NoError THEN @ ELSE Append(@, err)]
    /\ result' = [result EXCEPT ![r] = res]
    /\ Respond(r, ResultPage(s, res))
    /\ pc' = [pc EXCEPT ![r] = "done"]
    /\ overlapped' = overlapped

\* app.post('/analyze', ...) up to its first await
Analyze(r) ==
    /\ pc[r] = "idle"
    /\ \E b \in Bodies :
         LET s == TrimSentence(b)
             res == InitialResult(WordCount(s))
         IN  /\ body' = [body EXCEPT ![r] = b]
             /\ sentence' = [sentence EXCEPT ![r] = s]
             /\ UNCHANGED <<build, HF_TOKEN, asyncErrors, outcome>>
             /\ IF s = << >>
                THEN /\ IF SendsDirectly(build)
                        THEN /\ response' = [response EXCEPT ![r] = Redirect]
                             /\ sent' = [sent EXCEPT ![r] = @ + 1]
                             /\ UNCHANGED escaped
                        ELSE Respond(r, FormPage(s))
                     /\ pc' = [pc EXCEPT ![r] = "done"]
                     /\ UNCHANGED <<called, result, logged, overlapped>>
                ELSE IF TokenCheck(build) /\ ~HF_TOKEN
                THEN /\ Finish(r, s, Caught(build, res, TokenError), TokenError)
                     /\ UNCHANGED called
                ELSE /\ called' = [called EXCEPT ![r] = @ + 1]
                     /\ result' = [result EXCEPT ![r] = res]
                     /\ pc' = [pc EXCEPT ![r] =
                            IF build = "server" THEN "fetch" ELSE "textGeneration"]
                     /\ overlapped' =
                            (overlapped \/ \E q \in Reqs \ {r} : Suspended(pc[q]))
                     /\ UNCHANGED <<response, sent, escaped, logged>>

\* await fetch(...) settles: a rejection, or a response whose status is known
\* and whose body is still to be read
FetchSettles(r) ==
    /\ pc[r] = "fetch"
    /\ \E k \in {"reject", "status", "ok"} :
         /\ outcome' = [outcome EXCEPT ![r].kind = k]
         /\ IF k = "reject"
            THEN Finish(r, SentenceOf(r), Caught(build, Locals(r), TransportError), TransportError)
            ELSE /\ pc' = [pc EXCEPT ![r] = IF k = "status" THEN "text" ELSE "json"]
                 /\ UNCHANGED <<result, response, sent, escaped, logged, overlapped>>
    /\ UNCHANGED <<build, HF_TOKEN, asyncErrors, body, sentence, called>>

\* await hfResponse.text() settles: the status error is thrown and caught
TextSettles(r) ==
    /\ pc[r] = "text"
    /\ \E o \in Outcomes :
         /\ o.kind = outcome[r].kind
         /\ outcome' = [outcome EXCEPT ![r] = o]
         /\ Finish(r, SentenceOf(r), Caught(build, Locals(r), StatusError(o.errorText)),
                   StatusError(o.errorText))
    /\ UNCHANGED <<build, HF_TOKEN, asyncErrors, body, sentence, called>>

\* await hfResponse.json() settles: guard, score, send
JsonSettles(r) ==
    /\ pc[r] = "json"
    /\ \E o \in Outcomes :
         /\ o.kind = outcome[r].kind
         /\ outcome' = [outcome EXCEPT ![r] = o]
         /\ Finish(r, SentenceOf(r), AfterTry(build, Locals(r), o), TryError(build, o))
    /\ UNCHANGED <<build, HF_TOKEN, asyncErrors, body, sentence, called>>

\* await hf.textGeneration(...) settles
TextGenerationSettles(r) ==
    /\ pc[r] = "textGeneration"
    /\ \E o \in Outcomes :
         /\ outcome' = [outcome EXCEPT ![r] = o]
         /\ Finish(r, SentenceOf(r), AfterTry(build, Locals(r), o), TryError(build, o))
    /\ UNCHANGED <<build, HF_TOKEN, asyncErrors, body, sentence, called>>

Next ==
    /\ \E r \in Reqs :
        \/ Analyze(r)
        \/ FetchSettles(r)
        \/ TextSettles(r)
        \/ JsonSettles(r)
        \/ TextGenerationSettles(r)
    /\ UNCHANGED probe

Spec == Init /\ [][Next]_vars

\* ------------------------------------------------------------------------
\* The score as a function of perplexity alone
\* ------------------------------------------------------------------------
MaxGrid == 80
GridStep == SCALE \div 2

\* perplexity values: a grid from 0 past the saturation point, one very
\* large value and the overflow value
PplGrid ==
    { Fin(i * GridStep) : i \in 0..MaxGrid } \cup { Fin(22026 * SCALE), Infinity }

\* p < q for two perplexity values
PplLess(p, q) ==
    \/ IsFinite(p) /\ IsFinite(q) /\ p.val < q.val
    \/ IsFinite(p) /\ q.kind = "Infinity"

InitScore ==
    /\ InitHandler
    /\ probe \in { [NoProbe EXCEPT !.p1 = a, !.p2 = b] : a \in PplGrid, b \in PplGrid }

\* weirdness = Math.min(100, Math.max(0, Math.round(...))) applied to both
ScoreProbe ==
    /\ ~probe.scored
    /\ probe' = [probe EXCEPT !.w1 = Weirdness(probe.p1), !.w2 = Weirdness(probe.p2),
                              !.scored = TRUE]
    /\ UNCHANGED handlerVars

NextScore == ScoreProbe

SpecScore == InitScore /\ [][NextScore]_vars


\* ------------------------------------------------------------------------
\* Claims
\* ------------------------------------------------------------------------
Done(r) == pc[r] = "done"

\* the provider step failed: no credential, a rejection or a non-success status
ProviderFailed(r) ==
    \/ ~HF_TOKEN
    \/ outcome[r].kind \in {"reject", "status"}

\* the provider answered with no prefill tokens
EmptyPrefill(r) ==
    /\ outcome[r].kind = "ok"
    /\ (~outcome[r].details \/ outcome[r].prefill = << >>)

\* the provider answered with at least one prefill token
HasTokens(r) ==
    /\ outcome[r].kind = "ok"
    /\ outcome[r].details
    /\ outcome[r].prefill # << >>

\* an integer in 0..100
IsScore(w) == IsFinite(w) /\ w.val % SCALE = 0 /\ 0 <= w.val /\ w.val <= 100 * SCALE

\* C1: every request with a non-empty trimmed sentence ends with exactly one
\* result page sent by the handler and with no exception leaving the handler,
\* whatever the provider's outcome.
C1_ScoringTotal ==
    \A r \in Reqs :
        /\ sent[r] <= 1
        /\ (Done(r) /\ sentence[r] # << >>) =>
              /\ sent[r] = 1
              /\ response[r].kind = "page"
              /\ response[r].hasResult
              /\ ~escaped[r]

\* C2: when the provider step fails (credential missing, rejection, non-success
\* status) the result sent has weirdness 0, the display string
\* 'Error calculating weirdness' and a non-null error message.
C2_FailureFallback ==
    \A r \in Reqs :
        (Done(r) /\ sentence[r] # << >> /\ ProviderFailed(r)) =>
            /\ response[r].kind = "page"
            /\ response[r].weirdness = Fin(0)
            /\ response[r].perplexityInfo = ErrorInfo
            /\ response[r].errorMessage # Null

\* C3: a successful provider response with an empty or absent prefill list
\* yields the fallback result (weirdness 0, the failure display string), never
\* a value computed from a division by a zero token count.
C3_EmptyPrefillFallback ==
    \A r \in Reqs :
        (Done(r) /\ called[r] = 1 /\ EmptyPrefill(r)) =>
            /\ result[r].weirdness = Fin(0)
            /\ result[r].perplexityInfo = ErrorInfo

\* C4: in every result page sent, and in every result computed from a
\* non-empty token list or on the fallback path, weirdness is an integer in
\* 0..100, a very large perplexity included.
C4_WeirdnessRange ==
    \A r \in Reqs :
        /\ (response[r].kind = "page" /\ response[r].hasResult) =>
              IsScore(response[r].weirdness)
        /\ (Done(r) /\ sentence[r] # << >> /\ (HasTokens(r) \/ logged[r] # << >>)) =>
              IsScore(result[r].weirdness)

\* a page was sent whose score saturated at 100 for a perplexity above 100
C4_Witness ==
    \E r \in Reqs :
        /\ response[r].kind = "page"
        /\ HasTokens(r)
        /\ IsFinite(Ppl(outcome[r].prefill))
        /\ Ppl(outcome[r].prefill).val > 100 * SCALE
        /\ response[r].weirdness = Fin(100 * SCALE)

\* C5: with the access token unset, no network call to the provider is issued.
C5_NoCallWithoutToken ==
    ~HF_TOKEN => \A r \in Reqs : called[r] = 0

\* C6: a request whose sentence is missing or empty after trimming gets a
\* response, and neither the provider call nor the scoring runs for it.
C6_EmptyShortCircuit ==
    \A r \in Reqs :
        (Done(r) /\ sentence[r] = << >>) =>
            /\ response[r].kind # "none"
            /\ called[r] = 0
            /\ outcome[r] = NoOutcome
            /\ result[r] = InitialResult(0)

\* the request failed for one of the reasons of C7
Failed(r) == ProviderFailed(r) \/ EmptyPrefill(r)

\* C7: two failed requests with the same sentence get identical responses,
\* whatever the failure kinds and the error details, and no text of a logged
\* error is part of a response.
C7_UniformFailureResponse ==
    /\ \A r1, r2 \in Reqs :
          (/\ Done(r1) /\ Done(r2)
           /\ sentence[r1] # << >> /\ sentence[r1] = sentence[r2]
           /\ Failed(r1) /\ Failed(r2)) => response[r1] = response[r2]
    /\ \A r \in Reqs : \A i \in DOMAIN logged[r] :
          response[r].errorMessage \notin {logged[r][i].message, logged[r][i].detail}

\* two requests with the same sentence failed for different reasons, with an
\* error detail logged, and both got a result page
C7_Witness ==
    \E r1, r2 \in Reqs :
        /\ Done(r1) /\ Done(r2)
        /\ sentence[r1] # << >> /\ sentence[r1] = sentence[r2]
        /\ outcome[r1].kind = "reject"
        /\ outcome[r2].kind = "status"
        /\ logged[r2] # << >> /\ logged[r2][1].detail # ""
        /\ response[r1].kind = "page" /\ response[r2].kind = "page"

\* C8: the score is non-decreasing in perplexity, rounding and clamp included.
C8_Monotone ==
    (probe.scored /\ PplLess(probe.p1, probe.p2)) =>
        /\ IsFinite(probe.w1) /\ IsFinite(probe.w2)
        /\ probe.w1.val <= probe.w2.val

\* two perplexities below the saturation point were scored, the larger higher
C8_Witness ==
    /\ probe.scored
    /\ PplLess(probe.p1, probe.p2)
    /\ probe.w1.val < probe.w2.val
    /\ probe.w2.val < 100 * SCALE

\* the sum of the log-probabilities that are present
RECURSIVE PresentSum(_)
PresentSum(prefill) ==
    IF prefill = << >> THEN 0
    ELSE (IF Head(prefill).hasLogprob THEN Head(prefill).logprob ELSE 0)
         + PresentSum(Tail(prefill))

\* the perplexity of the present log-probabilities over all the tokens
PplCountingAll(prefill) == MathExp(NegAvgLogProb(PresentSum(prefill), Len(prefill)))

\* C9: a token without a logprob counts as 0 and is not rejected: the try
\* block runs to its end, and perplexity and weirdness are those of the sum of
\* the present log-probabilities divided by the number of all tokens.
C9_MissingLogprobIsZero ==
    \A r \in Reqs :
        (Done(r) /\ called[r] = 1 /\ HasTokens(r)) =>
            /\ logged[r] = << >>
            /\ result[r].errorMessage = Null
            /\ result[r].weirdness = Weirdness(PplCountingAll(outcome[r].prefill))
            /\ result[r].perplexityInfo = PerplexityInfo(PplCountingAll(outcome[r].prefill))

\* a page was sent for a token list with one missing and one present logprob
C9_Witness ==
    \E r \in Reqs :
        /\ Done(r) /\ HasTokens(r)
        /\ \E i, j \in DOMAIN outcome[r].prefill :
              ~outcome[r].prefill[i].hasLogprob /\ outcome[r].prefill[j].hasLogprob
        /\ response[r].kind = "page"
        /\ response[r].perplexityInfo = PerplexityInfo(PplCountingAll(outcome[r].prefill))

\* the response a request gets when it runs alone, from its own body and its
\* own provider outcome
SoloResult(r) ==
    LET s == TrimSentence(body[r])
        res == InitialResult(WordCount(s))
    IN  IF TokenCheck(build) /\ ~HF_TOKEN THEN Caught(build, res, TokenError)
        ELSE AfterTry(build, res, outcome[r])

SoloResponse(r) ==
    LET s == TrimSentence(body[r])
    IN  IF s = << >> /\ SendsDirectly(build) THEN Redirect
        ELSE IF ~CanSend(build) THEN Rejected(asyncErrors)
        ELSE IF s = << >> THEN FormPage(s)
        ELSE ResultPage(s, SoloResult(r))

\* C10: the response of every request, however the requests interleave at the
\* provider call, is the one it gets alone, from its own sentence and its own
\* provider outcome.
C10_Independent ==
    \A r \in Reqs : Done(r) => response[r] = SoloResponse(r)

\* two handlers were suspended at the same time and both sent their page,
\* with different word counts
C10_Witness ==
    /\ overlapped
    /\ \E r1, r2 \in Reqs :
          /\ Done(r1) /\ Done(r2)
          /\ response[r1].kind = "page" /\ response[r2].kind = "page"
          /\ response[r1].wordCount # response[r2].wordCount

====
